---- MODULE Spec2Model ----
(***************************************************************************)
(* DHCPv4 / DHCPv6 client simulator (client/dhcp_simulator.py,             *)
(* client/dhcpv6_simulator.py, dhcp4-client.py).                           *)
(*                                                                         *)
(* Buffers are sequences of bytes (0..255).  Python indexes from 0, TLA+   *)
(* from 1: byte `data[i]` of the source is `data[i+1]` here.  An operation *)
(* that raises in the source returns the name of the exception.            *)
(***************************************************************************)
EXTENDS Integers, Sequences, FiniteSets, TLC

\* ------------------------------------------------------------------------
\* Bounds of the model
\* ------------------------------------------------------------------------

\* Number of simulated clients of a run (the source runs 50).
TOTAL_CLIENTS == 3

\* Size of the worker pool (the source uses 10).
MAX_CONCURRENT == 2

\* Number of SIGINT/SIGTERM deliveries considered in one run.
MaxSignals == 1

\* Number of datagrams one wait step receives before it times out or returns.
MaxRecv == 2

\* Number of chunks a DHCPv6 option stream is assembled from.
MaxChunks == 2

\* Calls of the health check the readiness loop makes before its deadline.
MaxProbes == 2

\* ------------------------------------------------------------------------
\* Bytes
\* ------------------------------------------------------------------------

Byte == 0..255

Min(a, b) == IF a < b THEN a ELSE b

\* n zero bytes: b'\x00' * n
Zeros(n) == [k \in 1..n |-> 0]

\* Python slice data[a:b]: clamps to the buffer, never raises.
Slice(data, a, b) == SubSeq(data, a + 1, Min(b, Len(data)))

\* struct.pack of format 'B' accepts 0 <= n <= 255 and raises struct.error otherwise.
FitsB(n) == n \in Byte

\* struct.pack('!B', n) of a value that fits.
PackB(n) == <<n>>

\* struct.pack('!H', n): two bytes, big endian.
PackH(n) == <<(n \div 256) % 256, n % 256>>

\* struct.pack('!I', n): four bytes, big endian.
PackI(n) == <<(n \div 16777216) % 256, (n \div 65536) % 256, (n \div 256) % 256, n % 256>>

\* struct.unpack('!H', two)[0]
UnpackH(two) == two[1] * 256 + two[2]

\* struct.unpack('!I', four)[0]
UnpackI(four) == ((four[1] * 256 + four[2]) * 256 + four[3]) * 256 + four[4]

\* ------------------------------------------------------------------------
\* DHCPv4 codec
\* ------------------------------------------------------------------------

\* Offset of the first option: 236 bytes of BOOTP header and the magic cookie.
OPTIONS_OFFSET == 240

MAGIC_COOKIE == 1669485411

\* build_bootp: struct.pack('!BBBBIHHIIII16s64s128sI', ...), 240 bytes.
build_bootp(op, yiaddr, chaddr, xid) ==
    <<op, 1, 6, 0>> \o PackI(xid) \o PackH(0) \o PackH(32768)
      \o PackI(0) \o PackI(yiaddr) \o PackI(0) \o PackI(0)
      \o (chaddr \o Zeros(10))
      \o Zeros(64) \o Zeros(128)
      \o PackI(MAGIC_COOKIE)

\* socket.inet_aton of a dotted quad, kept as its four decimal fields.
inet_aton(ip) == <<ip[1] % 256, ip[2] % 256, ip[3] % 256, ip[4] % 256>>

\* socket.inet_ntoa of four bytes: the dotted quad.
inet_ntoa(four) == <<four[1], four[2], four[3], four[4]>>

NoneValue == <<>>

\* send_dhcp: the packet handed to sendto (destination 255.255.255.255:67).
send_dhcp(msg_type, mac, xid, requested_ip, server_id) ==
    build_bootp(1, 0, mac, xid)
      \o <<53, 1, msg_type>>
      \o (<<61, 7, 1>> \o mac)
      \o (IF requested_ip # NoneValue THEN <<50, 4>> \o inet_aton(requested_ip) ELSE <<>>)
      \o (IF server_id # NoneValue THEN <<54, 4>> \o inet_aton(server_id) ELSE <<>>)
      \o (IF msg_type = 1 THEN <<55, 3, 3, 1, 6>> ELSE <<>>)
      \o <<255>>

\* The inner loop of wait_for_msg on one datagram, from option offset `index`:
\* "return" (line 77), "continue" (the loop ends or breaks: back to recvfrom),
\* or "IndexError" (data[index+2] or data[index+1] past the end of the buffer;
\* the except clause catches socket.timeout only).
RECURSIVE scan_options(_, _, _)
scan_options(data, index, expected_type) ==
    IF ~(index < Len(data)) THEN "continue"
    ELSE IF data[index + 1] = 255 THEN "continue"
    ELSE IF data[index + 1] = 53 /\ ~(index + 2 < Len(data)) THEN "IndexError"
    ELSE IF data[index + 1] = 53 /\ data[index + 3] = expected_type THEN "return"
    ELSE IF ~(index + 1 < Len(data)) THEN "IndexError"
    ELSE scan_options(data, index + 2 + data[index + 2], expected_type)

\* One iteration of the outer loop of wait_for_msg on a received datagram.
\* wait_for_msg without the test of the transaction id (lines 70-71 dropped).
wait_for_msg_any_xid(data, xid, expected_type) ==
    scan_options(data, OPTIONS_OFFSET, expected_type)

wait_for_msg(data, xid, expected_type) ==
    IF Slice(data, 4, 8) # PackI(xid) THEN "continue"
    ELSE scan_options(data, OPTIONS_OFFSET, expected_type)

\* The value of option `tag` in the option stream send_dhcp lays out from
\* offset 240 (tag, length, value ... 0xff), NoneValue when it is absent or
\* cut short.
RECURSIVE option_scan(_, _, _)
option_scan(data, index, tag) ==
    IF ~(index + 1 < Len(data)) \/ data[index + 1] = 255 THEN NoneValue
    ELSE IF index + 2 + data[index + 2] > Len(data) THEN NoneValue
    ELSE IF data[index + 1] = tag THEN Slice(data, index + 2, index + 2 + data[index + 2])
    ELSE option_scan(data, index + 2 + data[index + 2], tag)

option_value(data, tag) == option_scan(data, OPTIONS_OFFSET, tag)

\* ------------------------------------------------------------------------
\* DHCPv6 codec
\* ------------------------------------------------------------------------

\* Lifetimes and prefix length create_dhcpv6_msg writes into the IA_Prefix hint.
PREFERRED_LIFETIME == 3600

VALID_LIFETIME == 7200

PREFIX_LEN == 64

\* The result of an operation that may raise: the exception ("none" when it
\* returned) and the value returned.
Returned(v) == [exc |-> "none", value |-> v]

Raised(e) == [exc |-> e, value |-> <<>>]

\* An IPv6 address in text is kept as its eight 16-bit groups.
\* socket.inet_pton(AF_INET6, text): sixteen bytes.
inet_pton(groups) ==
    PackH(groups[1]) \o PackH(groups[2]) \o PackH(groups[3]) \o PackH(groups[4])
      \o PackH(groups[5]) \o PackH(groups[6]) \o PackH(groups[7]) \o PackH(groups[8])

\* socket.inet_ntop(AF_INET6, sixteen bytes): the text, as eight groups.
inet_ntop(b) ==
    [k \in 1..8 |-> b[2 * k - 1] * 256 + b[2 * k]]

\* The prefix hint every transaction uses: 'fd00:1234:5678::'.
PREFIX_HINT == <<64768, 4660, 22136, 0, 0, 0, 0, 0>>

\* struct.pack('!HHBBI', 26, 25, preferred, valid, prefix_len) + prefix_bytes:
\* the lifetimes are packed with format 'B'.
ia_prefix_hint(prefix_hint) ==
    IF ~(FitsB(PREFERRED_LIFETIME) /\ FitsB(VALID_LIFETIME))
    THEN Raised("struct.error")
    ELSE Returned(PackH(26) \o PackH(25) \o PackB(PREFERRED_LIFETIME)
                    \o PackB(VALID_LIFETIME) \o PackI(PREFIX_LEN) \o inet_pton(prefix_hint))

\* create_dhcpv6_msg: the message, or the exception raised while packing it.
\* ia_id is the value random.randint(1, 0xFFFFFFFF) draws.
create_dhcpv6_msg(msg_type, transaction_id, duid, prefix_hint, server_duid, ia_id) ==
    LET header == <<msg_type>> \o transaction_id
        client_id == PackH(1) \o PackH(Len(duid)) \o duid
        server_id == IF server_duid # NoneValue
                     THEN PackH(2) \o PackH(Len(server_duid)) \o server_duid
                     ELSE <<>>
        elapsed == PackH(8) \o PackH(2) \o PackH(0)
        oro == PackH(6) \o PackH(4) \o PackH(23) \o PackH(24)
        with_ia_pd == prefix_hint # NoneValue /\ msg_type \in {1, 3}
        ia_prefix == ia_prefix_hint(prefix_hint)
        ia_pd == PackI(ia_id) \o PackI(0) \o PackI(0) \o ia_prefix.value
    IN  IF with_ia_pd /\ ia_prefix.exc # "none"
        THEN Raised(ia_prefix.exc)
        ELSE Returned(header \o client_id \o server_id \o elapsed
                        \o (IF with_ia_pd THEN PackH(25) \o PackH(Len(ia_pd)) \o ia_pd ELSE <<>>)
                        \o oro)

\* A Python dict is a function from its keys; d[k] = v.
DictSet(d, k, v) == [x \in (DOMAIN d) \cup {k} |-> IF x = k THEN v ELSE d[x]]

\* parse_dhcpv6_options without the check of the declared length against the
\* buffer (lines 145-146 dropped): the value slice is clamped by Python.
RECURSIVE parse_options_loop_unchecked(_, _, _)
parse_options_loop_unchecked(data, offset, options) ==
    IF ~(offset < Len(data)) THEN Returned(options)
    ELSE IF offset + 4 > Len(data) THEN Returned(options)
    ELSE LET option_code == UnpackH(Slice(data, offset, offset + 2))
             option_len == UnpackH(Slice(data, offset + 2, offset + 4))
         IN  parse_options_loop_unchecked(data, offset + 4 + option_len,
                     DictSet(options, option_code,
                             Slice(data, offset + 4, offset + 4 + option_len)))

\* struct.unpack('!H', b)[0] raises struct.error unless b holds two bytes.
\* The loop of parse_dhcpv6_options from `offset`, `options` collected so far.
RECURSIVE parse_options_loop(_, _, _)
parse_options_loop(data, offset, options) ==
    IF ~(offset < Len(data)) THEN Returned(options)
    ELSE IF offset + 4 > Len(data) THEN Returned(options)
    ELSE IF Len(Slice(data, offset, offset + 2)) # 2 \/ Len(Slice(data, offset + 2, offset + 4)) # 2
         THEN Raised("struct.error")
    ELSE LET option_code == UnpackH(Slice(data, offset, offset + 2))
             option_len == UnpackH(Slice(data, offset + 2, offset + 4))
         IN  IF offset + 4 + option_len > Len(data) THEN Returned(options)
             ELSE parse_options_loop(data, offset + 4 + option_len,
                     DictSet(options, option_code,
                             Slice(data, offset + 4, offset + 4 + option_len)))

\* parse_dhcpv6_options(data, offset)
parse_dhcpv6_options(data, offset) == parse_options_loop(data, offset, <<>>)

\* The delegated prefix f"{prefix_str}/{prefix_len}": the eight groups of the
\* address followed by the prefix length.
PrefixText(prefix_str, prefix_len) == prefix_str \o <<prefix_len>>

\* The loop of extract_prefix_from_ia_pd from `offset`.
RECURSIVE extract_prefix_loop(_, _)
extract_prefix_loop(ia_pd_option, offset) ==
    IF ~(offset < Len(ia_pd_option)) THEN Returned(NoneValue)
    ELSE IF offset + 4 > Len(ia_pd_option) THEN Returned(NoneValue)
    ELSE IF Len(Slice(ia_pd_option, offset, offset + 2)) # 2
            \/ Len(Slice(ia_pd_option, offset + 2, offset + 4)) # 2
         THEN Raised("struct.error")
    ELSE LET sub_option_code == UnpackH(Slice(ia_pd_option, offset, offset + 2))
             sub_option_len == UnpackH(Slice(ia_pd_option, offset + 2, offset + 4))
             prefix_bytes == Slice(ia_pd_option, offset + 4 + 9, offset + 4 + 9 + 16)
         IN  IF offset + 4 + sub_option_len > Len(ia_pd_option) THEN Returned(NoneValue)
             ELSE IF sub_option_code = 26 /\ sub_option_len >= 25
                  THEN IF ~(offset + 4 + 8 < Len(ia_pd_option)) THEN Raised("IndexError")
                       ELSE IF Len(prefix_bytes) # 16 THEN Returned(NoneValue)
                       ELSE Returned(PrefixText(inet_ntop(prefix_bytes),
                                                ia_pd_option[offset + 4 + 8 + 1]))
                  ELSE extract_prefix_loop(ia_pd_option, offset + 4 + sub_option_len)

\* extract_prefix_from_ia_pd(ia_pd_option)
extract_prefix_from_ia_pd(ia_pd_option) ==
    IF Len(ia_pd_option) < 16 THEN Returned(NoneValue)
    ELSE extract_prefix_loop(ia_pd_option, 12)

\* One iteration of the loop of wait_for_dhcpv6_response on a received datagram:
\* "return" or "continue".
wait_for_dhcpv6_response(data, transaction_id, expected_type) ==
    IF Len(data) < 4 THEN "continue"
    ELSE IF Slice(data, 1, 4) # transaction_id \/ data[1] # expected_type THEN "continue"
    ELSE "return"

\* ------------------------------------------------------------------------
\* State
\* ------------------------------------------------------------------------

VARIABLES
    prog,           \* the program run: dhcp_simulator, dhcpv6_simulator or dhcp4-client
    nprobes,        \* calls of the health check made by the readiness loop in progress
    ready,          \* dhcp_ready / dhcpv6_ready of __main__
    mainpc,         \* where the main thread is in __main__
    nsubmitted,     \* the loop index of run_clients
    handlers,       \* the handle_exit frames on the main thread: each one's index in clients
    nsignals,       \* signals delivered so far
    stop_requested, \* the global stop_requested
    exit_cause,     \* what ended the main program: "none", "sys.exit" (handle_exit), "sys.exit(1)" (readiness) or "exception"
    stats,          \* the global stats
    clients,        \* the global clients: the leases appended
    released,       \* per lease of clients, the RELEASE messages sent for it
    release_io,     \* per lease of clients, the failed send_release calls and the last RELEASE sent
    task,           \* per client, the state of its transaction
    dec,            \* a decoder applied to one buffer: the input and the result
    rx              \* one wait step: what it waits for, the last datagram, its state

vars == <<prog, nprobes, ready, mainpc, nsubmitted, handlers, nsignals, stop_requested, exit_cause, stats,
          clients, released, release_io, task, dec, rx>>

\* The variables of the orchestrated run.
runVars == <<prog, nprobes, ready, mainpc, nsubmitted, handlers, nsignals, stop_requested, exit_cause, stats,
             clients, released, release_io, task>>

\* Their value in a specification of a decoder or of a wait step alone.
RunUnused ==
    /\ prog = "none" /\ nprobes = 0 /\ ready = FALSE /\ mainpc = "exited" /\ nsubmitted = 0 /\ handlers = <<>>
    /\ nsignals = 0 /\ stop_requested = FALSE /\ exit_cause = "none"
    /\ stats = [success |-> 0, failed |-> 0] /\ clients = <<>> /\ released = <<>>
    /\ release_io = <<>>
    /\ task = <<>>

\* The value of a variable a specification does not use.
Unused == [done |-> TRUE]

\* ------------------------------------------------------------------------
\* The DHCPv6 decoders applied to option streams
\* ------------------------------------------------------------------------

\* A complete option or sub-option: code(2) len(2) value(len).
Opt(code, value) ==
    [kind |-> "complete", code |-> code, value |-> value,
     bytes |-> PackH(code) \o PackH(Len(value)) \o value]

\* An option whose declared length exceeds the bytes that follow it.
CutOpt(code, declared, present) ==
    [kind |-> "cut", code |-> code, value |-> present,
     bytes |-> PackH(code) \o PackH(declared) \o present]

\* Fewer than four bytes: not even an option header.
CutHeader(b) == [kind |-> "stub", code |-> 0, value |-> <<>>, bytes |-> b]

\* An IA_Prefix sub-option value: preferred(4) valid(4) prefix-len(1) prefix(16).
IaPrefixValue(prefix_len, groups) ==
    PackI(3600) \o PackI(7200) \o <<prefix_len>> \o inet_pton(groups)

\* A second prefix, 2001:db8::, to tell the first IA_Prefix from a later one.
OTHER_PREFIX == <<8193, 3512, 0, 0, 0, 0, 0, 0>>

\* An IA_PD value holding one IA_Prefix; its IAID is 1.
IaPdWith(prefix_len, groups) ==
    PackI(1) \o PackI(0) \o PackI(0) \o Opt(26, IaPrefixValue(prefix_len, groups)).bytes

\* The options a received message is assembled from.
OptionChunks ==
    { Opt(1, <<0, 1, 0, 1>>),
      Opt(2, <<0, 3, 0, 1>>),
      Opt(2, <<0, 3, 0, 9>>),
      Opt(25, IaPdWith(64, PREFIX_HINT)),
      Opt(8, <<>>),
      CutOpt(2, 10, <<0, 3, 0>>),
      CutOpt(25, 41, <<>>),
      CutHeader(<<0, 2, 0>>) }

\* The sub-options the value of an IA_PD is assembled from.
SubOptionChunks ==
    { Opt(26, IaPrefixValue(64, PREFIX_HINT)),
      Opt(26, IaPrefixValue(56, OTHER_PREFIX) \o <<0, 13, 0, 0>>),
      Opt(26, <<0, 0, 14, 16>>),
      Opt(13, <<0, 0>>),
      CutOpt(26, 25, <<0, 0, 14, 16, 0, 0, 28, 32, 64, 253>>),
      CutOpt(13, 2, <<0>>),
      CutHeader(<<0, 26>>) }

\* All sequences of at most n elements of S.
SeqsUpTo(S, n) == UNION {[1..k -> S] : k \in 0..n}

RECURSIVE Flatten(_)
Flatten(chunks) ==
    IF chunks = <<>> THEN <<>> ELSE Head(chunks).bytes \o Flatten(Tail(chunks))

\* A received ADVERTISE with transaction id 01 02 03 carrying the chunks.
MessageOf(chunks) == <<2, 1, 2, 3>> \o Flatten(chunks)

\* An IA_PD value: IAID, T1, T2 and the chunks.
IaPdOf(chunks) == PackI(1) \o PackI(0) \o PackI(0) \o Flatten(chunks)

\* A buffer cut short: only its last chunk may be incomplete.
CutAtEnd(chunks) == \A k \in 1..(Len(chunks) - 1) : chunks[k].kind = "complete"

DecInputs ==
    {[fn |-> "parse_dhcpv6_options", chunks |-> c, done |-> FALSE, result |-> Returned(<<>>)]
        : c \in {x \in SeqsUpTo(OptionChunks, MaxChunks) : CutAtEnd(x)}}
    \cup
    {[fn |-> "extract_prefix_from_ia_pd", chunks |-> c, done |-> FALSE, result |-> Returned(<<>>)]
        : c \in {x \in SeqsUpTo(SubOptionChunks, MaxChunks) : CutAtEnd(x)}}

InitDecode == dec \in DecInputs /\ rx = Unused /\ RunUnused

\* options = parse_dhcpv6_options(data, 4)
ApplyParse ==
    /\ dec.fn = "parse_dhcpv6_options" /\ ~dec.done
    /\ dec' = [dec EXCEPT !.done = TRUE,
                          !.result = parse_dhcpv6_options(MessageOf(dec.chunks), 4)]
    /\ UNCHANGED <<rx, runVars>>

\* extract_prefix_from_ia_pd(options[25])
ApplyExtract ==
    /\ dec.fn = "extract_prefix_from_ia_pd" /\ ~dec.done
    /\ dec' = [dec EXCEPT !.done = TRUE,
                          !.result = extract_prefix_from_ia_pd(IaPdOf(dec.chunks))]
    /\ UNCHANGED <<rx, runVars>>

NextDecode == ApplyParse \/ ApplyExtract

SpecDecode == InitDecode /\ [][NextDecode]_vars

\* --- what the buffers hold, read off the chunks they were assembled from ---

\* The chunks before the first one that is not complete.
RECURSIVE CompletePrefix(_)
CompletePrefix(chunks) ==
    IF chunks = <<>> \/ Head(chunks).kind # "complete" THEN <<>>
    ELSE <<Head(chunks)>> \o CompletePrefix(Tail(chunks))

\* Some chunk declares a length that exceeds the bytes remaining.
HasCut(chunks) == \E k \in 1..Len(chunks) : chunks[k].kind = "cut"

\* code -> value of the complete chunks, a later one replacing an earlier one.
ContainedOptions(chunks) ==
    LET codes == {chunks[k].code : k \in 1..Len(chunks)}
        last(c) == CHOOSE k \in 1..Len(chunks) :
                      /\ chunks[k].code = c
                      /\ \A j \in (k + 1)..Len(chunks) : chunks[j].code # c
    IN  [c \in codes |-> chunks[last(c)].value]

IsIaPrefix(chunk) == chunk.code = 26 /\ Len(chunk.value) >= 25

\* The first IA_Prefix among the chunks, as text; None without one.
FirstPrefix(chunks) ==
    IF \E k \in 1..Len(chunks) : IsIaPrefix(chunks[k])
    THEN LET k == CHOOSE k \in 1..Len(chunks) :
                     IsIaPrefix(chunks[k]) /\ \A j \in 1..(k - 1) : ~IsIaPrefix(chunks[j])
         IN  inet_ntop(SubSeq(chunks[k].value, 10, 25)) \o <<chunks[k].value[9]>>
    ELSE NoneValue

CodecXids == {0, 1, 255, 287454020, 2147483647}

\* Values random_mac() may draw: 02:00 and four random bytes.
CodecMacs == {<<2, 0, 0, 0, 0, 0>>, <<2, 0, 127, 255, 255, 255>>, <<2, 0, 1, 53, 1, 2>>,
              <<2, 0, 18, 61, 7, 1>>, <<2, 0, 0, 255, 0, 54>>, <<2, 0, 99, 0, 25, 26>>}

\* Values the three random bytes of a DHCPv6 transaction id may take.
CodecTids == {<<0, 0, 0>>, <<1, 2, 3>>, <<255, 255, 255>>}

\* Values random_duid() may return: DUID-LLT of a time and a MAC.
CodecDuids == {PackH(1) \o PackH(1) \o PackI(847000000) \o <<2, 0, 0, 0, 0, 1>>,
               PackH(1) \o PackH(1) \o PackI(0) \o <<2, 0, 127, 255, 255, 255>>}

NotEncoded == [exc |-> "pending", value |-> <<>>]

CodecInputs ==
    {[fn |-> "DISCOVER", xid |-> x, tid |-> <<>>, identity |-> m, hint |-> NoneValue,
      step |-> "input", msg |-> NotEncoded, got_xid |-> -1, got_tid |-> <<>>,
      got_identity |-> <<>>] : x \in CodecXids, m \in CodecMacs}
    \cup
    {[fn |-> "SOLICIT", xid |-> -1, tid |-> t, identity |-> d, hint |-> h,
      step |-> "input", msg |-> NotEncoded, got_xid |-> -1, got_tid |-> <<>>,
      got_identity |-> <<>>] : t \in CodecTids, d \in CodecDuids, h \in {NoneValue, PREFIX_HINT}}

InitCodec == dec \in CodecInputs /\ rx = Unused /\ RunUnused

\* send_dhcp(sock, 1, mac, xid): the packet handed to sendto.
EncodeDiscover ==
    /\ dec.fn = "DISCOVER" /\ dec.step = "input"
    /\ dec' = [dec EXCEPT !.step = "encoded",
                          !.msg = Returned(send_dhcp(1, dec.identity, dec.xid,
                                                     NoneValue, NoneValue))]
    /\ UNCHANGED <<rx, runVars>>

\* create_dhcpv6_msg(1, transaction_id, duid, prefix_hint, None): the message
\* or the exception.
EncodeSolicit ==
    /\ dec.fn = "SOLICIT" /\ dec.step = "input"
    /\ dec' = [dec EXCEPT !.step = "encoded",
                          !.msg = create_dhcpv6_msg(1, dec.tid, dec.identity, dec.hint,
                                                    NoneValue, 1)]
    /\ UNCHANGED <<rx, runVars>>

\* The DISCOVER read back: xid at data[4:8], the client identifier in option
\* 61 after its hardware type byte.
DecodeDiscover ==
    /\ dec.fn = "DISCOVER" /\ dec.step = "encoded" /\ dec.msg.exc = "none"
    /\ dec' = [dec EXCEPT !.step = "decoded",
                          !.got_xid = UnpackI(Slice(dec.msg.value, 4, 8)),
                          !.got_identity = Slice(option_value(dec.msg.value, 61), 1, 7)]
    /\ UNCHANGED <<rx, runVars>>

\* The SOLICIT read back: the transaction id at data[1:4], the client
\* identifier in option 1 of parse_dhcpv6_options(data, 4).
DecodeSolicit ==
    /\ dec.fn = "SOLICIT" /\ dec.step = "encoded" /\ dec.msg.exc = "none"
    /\ LET options == parse_dhcpv6_options(dec.msg.value, 4).value
       IN  dec' = [dec EXCEPT !.step = "decoded",
                              !.got_tid = Slice(dec.msg.value, 1, 4),
                              !.got_identity = IF 1 \in DOMAIN options THEN options[1]
                                               ELSE NoneValue]
    /\ UNCHANGED <<rx, runVars>>

NextCodec == EncodeDiscover \/ EncodeSolicit \/ DecodeDiscover \/ DecodeSolicit

SpecCodec == InitCodec /\ [][NextCodec]_vars

\* C15: encoding a DISCOVER or a SOLICIT (with or without a prefix hint)
\* yields a message, and reading that message back with the matching decoder
\* recovers the transaction id and the client identity that were encoded.
C15_EncodeDecodeRoundTrip ==
    /\ dec.step = "encoded" => dec.msg.exc = "none"
    /\ dec.step = "decoded" =>
          /\ dec.got_xid = dec.xid
          /\ dec.got_tid = dec.tid
          /\ dec.got_identity = dec.identity

\* ------------------------------------------------------------------------
\* The wait step: wait_for_msg, wait_for_dhcpv6_response
\* ------------------------------------------------------------------------

\* Transaction ids random.randint(0, 0xFFFFFFFF) may draw: 0x11223344, 0x01020304.
Xids == {287454020, 16909060}

\* DHCPv6 transaction ids (three random bytes).
Tids == {<<1, 2, 3>>, <<1, 2, 4>>}

\* Addresses in dotted-quad text: the offered address, two servers.
OFFERED_IP == <<10, 0, 0, 5>>

SERVER_A == <<10, 0, 0, 1>>

SERVER_B == <<10, 0, 0, 2>>

\* yiaddr of 10.0.0.5 as the integer the BOOTP header packs.
OFFERED_YIADDR == 167772165

\* A datagram recvfrom returns: the bytes, the source address, and what the
\* sender put in it (transaction id, message type, 0 when it holds none, and
\* whether its option stream is cut short without an end tag).
ServerMsg4(xid, msgtype, truncated, options, src) ==
    [data |-> build_bootp(2, OFFERED_YIADDR, Zeros(6), xid) \o options,
     addr |-> src, xid |-> xid, tid |-> <<>>, msgtype |-> msgtype, truncated |-> truncated]

ServerIdOpt(ip) == <<54, 4>> \o inet_aton(ip)

\* The DHCPv4 datagrams that may arrive at a socket waiting with `xid`;
\* `other` is another transaction's id.
Datagrams4(xid, other) ==
    { ServerMsg4(xid, 2, FALSE, <<53, 1, 2>> \o ServerIdOpt(SERVER_A) \o <<255>>, SERVER_A),
      ServerMsg4(xid, 2, FALSE, <<53, 1, 2>> \o ServerIdOpt(SERVER_A) \o <<255>>, SERVER_B),
      ServerMsg4(xid, 2, FALSE, ServerIdOpt(SERVER_A) \o <<53, 1, 2, 255>>, SERVER_A),
      ServerMsg4(xid, 5, FALSE, <<53, 1, 5>> \o ServerIdOpt(SERVER_A) \o <<255>>, SERVER_A),
      ServerMsg4(xid, 6, FALSE, <<53, 1, 6, 255>>, SERVER_A),
      ServerMsg4(other, 2, FALSE, <<53, 1, 2>> \o ServerIdOpt(SERVER_A) \o <<255>>, SERVER_A),
      ServerMsg4(other, 5, FALSE, <<53, 1, 5>> \o ServerIdOpt(SERVER_A) \o <<255>>, SERVER_A),
      ServerMsg4(other, 0, TRUE, <<53>>, SERVER_A),
      ServerMsg4(xid, 0, FALSE, <<>>, SERVER_A),
      ServerMsg4(xid, 0, TRUE, <<53>>, SERVER_A),
      ServerMsg4(xid, 0, TRUE, <<53, 1>>, SERVER_A),
      ServerMsg4(xid, 0, TRUE, <<54, 4, 10, 0>>, SERVER_A),
      ServerMsg4(xid, 6, TRUE, <<53, 1, 6, 54>>, SERVER_A),
      [data |-> <<2, 1, 6, 0, 17, 34>>, addr |-> SERVER_A, xid |-> 0, tid |-> <<>>,
       msgtype |-> 0, truncated |-> TRUE] }

ServerMsg6(tid, msgtype, truncated, chunks, src) ==
    [data |-> <<msgtype>> \o tid \o Flatten(chunks),
     addr |-> src, xid |-> 0, tid |-> tid, msgtype |-> msgtype, truncated |-> truncated]

\* Link-local addresses of two DHCPv6 servers, as eight groups: fe80::2, fe80::9.
SERVER6_A == <<65152, 0, 0, 0, 0, 0, 0, 2>>

SERVER6_B == <<65152, 0, 0, 0, 0, 0, 0, 9>>

\* The DHCPv6 datagrams that may arrive at a socket waiting with `tid`.
Datagrams6(tid, other) ==
    { ServerMsg6(tid, 2, FALSE,
                 <<Opt(1, <<0, 1, 0, 1>>), Opt(2, <<0, 3, 0, 1>>),
                   Opt(25, IaPdWith(64, PREFIX_HINT))>>, SERVER6_A),
      ServerMsg6(tid, 2, FALSE, <<Opt(1, <<0, 1, 0, 1>>)>>, SERVER6_B),
      ServerMsg6(tid, 7, FALSE,
                 <<Opt(2, <<0, 3, 0, 1>>), Opt(25, IaPdWith(64, PREFIX_HINT))>>, SERVER6_A),
      ServerMsg6(tid, 4, FALSE, <<Opt(2, <<0, 3, 0, 1>>)>>, SERVER6_A),
      ServerMsg6(other, 2, FALSE, <<Opt(2, <<0, 3, 0, 1>>)>>, SERVER6_A),
      ServerMsg6(other, 7, FALSE, <<Opt(2, <<0, 3, 0, 1>>)>>, SERVER6_A),
      ServerMsg6(tid, 2, TRUE, <<CutOpt(2, 10, <<0, 3, 0>>)>>, SERVER6_A),
      ServerMsg6(tid, 4, TRUE, <<CutHeader(<<0, 2, 0>>)>>, SERVER6_A),
      [data |-> <<2, 1>>, addr |-> SERVER6_A, xid |-> 0, tid |-> <<>>, msgtype |-> 2,
       truncated |-> TRUE] }

NoDatagram ==
    [data |-> <<>>, addr |-> <<>>, xid |-> 0, tid |-> <<>>, msgtype |-> 0, truncated |-> FALSE]

\* The other transaction id of a two-element set.
OtherOf(S, x) == CHOOSE y \in S : y # x

\* What one received datagram does to a wait step in progress.
AfterDatagram(outcome) ==
    CASE outcome = "return" -> "returned"
      [] outcome = "continue" -> "waiting"
      [] OTHER -> "raised"

InitWait ==
    /\ rx \in {[proto |-> "v4", xid |-> x, tid |-> <<>>, expected |-> t, state |-> "waiting",
                last |-> NoDatagram, nrecv |-> 0] : x \in Xids, t \in {2, 5}}
          \cup {[proto |-> "v6", xid |-> 0, tid |-> x, expected |-> t, state |-> "waiting",
                 last |-> NoDatagram, nrecv |-> 0] : x \in Tids, t \in {2, 7}}
    /\ dec = Unused
    /\ RunUnused

\* data, addr = sock.recvfrom(1024) in wait_for_msg, and the scan of that datagram.
Recv4 ==
    /\ rx.proto = "v4" /\ rx.state = "waiting" /\ rx.nrecv < MaxRecv
    /\ \E d \in Datagrams4(rx.xid, OtherOf(Xids, rx.xid)) :
          rx' = [rx EXCEPT !.state = AfterDatagram(wait_for_msg(d.data, rx.xid, rx.expected)),
                           !.last = d, !.nrecv = @ + 1]
    /\ UNCHANGED <<dec, runVars>>

\* data, addr = sock.recvfrom(1024) in wait_for_dhcpv6_response, and its checks.
Recv6 ==
    /\ rx.proto = "v6" /\ rx.state = "waiting" /\ rx.nrecv < MaxRecv
    /\ \E d \in Datagrams6(rx.tid, OtherOf(Tids, rx.tid)) :
          rx' = [rx EXCEPT !.state = AfterDatagram(
                                        wait_for_dhcpv6_response(d.data, rx.tid, rx.expected)),
                           !.last = d, !.nrecv = @ + 1]
    /\ UNCHANGED <<dec, runVars>>

\* recvfrom raises socket.timeout: return None.
WaitTimeout ==
    /\ rx.state = "waiting"
    /\ rx' = [rx EXCEPT !.state = "timeout"]
    /\ UNCHANGED <<dec, runVars>>

NextWait == Recv4 \/ Recv6 \/ WaitTimeout

SpecWait == InitWait /\ [][NextWait]_vars

\* ------------------------------------------------------------------------
\* The wait step in time: sock.settimeout(5) bounds each recvfrom call
\* ------------------------------------------------------------------------

\* sock.settimeout(5): time units a recvfrom call blocks before socket.timeout.
SOCKET_TIMEOUT == 5

\* A wait step that has just called recvfrom; idle counts the time units the
\* call in progress has been blocked.
InitWaitTimed ==
    /\ rx \in {[proto |-> "v4", xid |-> x, tid |-> <<>>, expected |-> t, state |-> "waiting",
                last |-> NoDatagram, nrecv |-> 0, idle |-> 0] : x \in Xids, t \in {2, 5}}
          \cup {[proto |-> "v6", xid |-> 0, tid |-> x, expected |-> t, state |-> "waiting",
                 last |-> NoDatagram, nrecv |-> 0, idle |-> 0] : x \in Tids, t \in {2, 7}}
    /\ dec = Unused
    /\ RunUnused

\* One time unit passes while recvfrom blocks.
TickWait ==
    /\ rx.state = "waiting" /\ rx.idle < SOCKET_TIMEOUT
    /\ rx' = [rx EXCEPT !.idle = @ + 1]
    /\ UNCHANGED <<dec, runVars>>

\* A datagram arrives before the recvfrom call in progress times out; when
\* wait_for_msg discards it, the loop calls recvfrom again, with a new timeout.
RecvTimed4 ==
    /\ rx.proto = "v4" /\ rx.state = "waiting" /\ rx.idle < SOCKET_TIMEOUT
    /\ \E d \in Datagrams4(rx.xid, OtherOf(Xids, rx.xid)) :
          rx' = [rx EXCEPT !.state = AfterDatagram(wait_for_msg(d.data, rx.xid, rx.expected)),
                           !.last = d, !.idle = 0]
    /\ UNCHANGED <<dec, runVars>>

\* The same in wait_for_dhcpv6_response.
RecvTimed6 ==
    /\ rx.proto = "v6" /\ rx.state = "waiting" /\ rx.idle < SOCKET_TIMEOUT
    /\ \E d \in Datagrams6(rx.tid, OtherOf(Tids, rx.tid)) :
          rx' = [rx EXCEPT !.state = AfterDatagram(
                                        wait_for_dhcpv6_response(d.data, rx.tid, rx.expected)),
                           !.last = d, !.idle = 0]
    /\ UNCHANGED <<dec, runVars>>

\* The recvfrom call in progress has blocked for the whole timeout:
\* socket.timeout, return None.
TimeoutTimed ==
    /\ rx.state = "waiting" /\ rx.idle = SOCKET_TIMEOUT
    /\ rx' = [rx EXCEPT !.state = "timeout"]
    /\ UNCHANGED <<dec, runVars>>

NextWaitTimed == TickWait \/ RecvTimed4 \/ RecvTimed6 \/ TimeoutTimed

\* Time passes, and a recvfrom call that has blocked for the timeout returns.
SpecWaitTimed ==
    InitWaitTimed /\ [][NextWaitTimed]_vars /\ WF_vars(TickWait) /\ WF_vars(TimeoutTimed)

\* C17: a wait step is bounded: it eventually ends (by a match or as a
\* timeout), also when datagrams it discards keep arriving at intervals
\* shorter than the timeout.
C17_WaitStepEnds ==
    <>(rx.state # "waiting")

\* ------------------------------------------------------------------------
\* The orchestrated run: __main__, run_clients, the worker pool, the
\* transactions, handle_exit
\* ------------------------------------------------------------------------

Clients == 1..TOTAL_CLIENTS

\* random_mac() of client i: 02:00 and four random bytes.
MacOf(i) == <<2, 0, 0, 0, 0, i>>

\* random.randint(0, 0xFFFFFFFF) of client i.
XidOf(i) == 287454020 + (i - 1)

\* A transaction id no client of the run uses.
FOREIGN_XID == 16909060

\* random_duid() of client i: struct.pack('!HHI', 1, 1, seconds since 2000) + mac.
DuidOf(i) == PackH(1) \o PackH(1) \o PackI(847000000) \o MacOf(i)

\* The three random bytes of client i's DHCPv6 transaction id.
TidOf(i) == <<1, 2, i>>

\* A transaction before the pool runs it.
NewTask ==
    [pc |-> "new", exc |-> "none", sock |-> "none", sent |-> <<>>, tmp |-> 0,
     offered_ip |-> NoneValue, server_ip |-> NoneValue,
     nfailed |-> 0, nsuccess |-> 0, nappend |-> 0,
     offer |-> [yiaddr |-> NoneValue, sid |-> NoneValue, src |-> NoneValue],
     request |-> [requested_ip |-> NoneValue, server_id |-> NoneValue],
     log |-> <<>>]

\* release_io of a lease no send_release was called for.
NoRelease == [failed |-> 0, packet |-> NoneValue, dest |-> NoneValue]

\* The steps of dhcp_client_logic at which a transaction is executing.
RunningPcs == {"await_offer", "inc_failed", "await_ack", "inc_success", "append"}

Running == {i \in Clients : task[i].pc \in RunningPcs}

Queued == {i \in Clients : task[i].pc = "queued"}

\* A pool that starts a queued work item whatever the number running.
PoolUnbounded == TRUE

\* ThreadPoolExecutor(max_workers=MAX_CONCURRENT): a queued work item starts
\* only on a worker thread that runs no other work item.
PoolHasFreeWorker == Cardinality(Running) < MAX_CONCURRENT

\* No handle_exit frame is on the main thread's stack: it runs the main program.
MainRuns == handlers = <<>> /\ mainpc # "exited"

Alive == mainpc # "exited"

\* The entry points of the repository.
Programs == {"dhcp_simulator", "dhcpv6_simulator", "dhcp4-client"}

\* __main__ of dhcp_simulator and dhcpv6_simulator starts with the readiness
\* loop; __main__ of dhcp4-client.py goes straight to asyncio.run(run_clients()).
HasHealthCheck == prog \in {"dhcp_simulator", "dhcpv6_simulator"}

Init ==
    /\ prog \in Programs
    /\ nprobes = 0
    /\ ready = FALSE
    /\ mainpc = IF HasHealthCheck THEN "health" ELSE "run_clients"
    /\ nsubmitted = 0
    /\ handlers = <<>>
    /\ nsignals = 0
    /\ stop_requested = FALSE
    /\ exit_cause = "none"
    /\ stats = [success |-> 0, failed |-> 0]
    /\ clients = <<>>
    /\ released = <<>>
    /\ release_io = <<>>
    /\ task = [i \in Clients |-> NewTask]
    /\ dec = Unused
    /\ rx = Unused

\* test_xid / test_mac / test_duid of the health check: an identity no client has.
TEST_ID == TOTAL_CLIENTS + 1

\* A DHCPv6 transaction id no client of the run uses.
FOREIGN_TID == <<9, 9, 9>>

\* The message of the n-th try of the health check, or the exception raised
\* while building it.  dhcp_simulator: send_dhcp(test_sock, 1, ...), then the
\* same DISCOVER built inline.  dhcpv6_simulator: send_dhcpv6 without a prefix
\* hint, then with prefix_hint = 'fd00:1234:5678::'.
ProbeMessage(n) ==
    IF prog = "dhcpv6_simulator"
    THEN create_dhcpv6_msg(1, TidOf(TEST_ID), DuidOf(TEST_ID),
                           IF n = 1 THEN NoneValue ELSE PREFIX_HINT, NoneValue, 1)
    ELSE Returned(send_dhcp(1, MacOf(TEST_ID), XidOf(TEST_ID), NoneValue, NoneValue))

\* What the wait step of the health check does with one received datagram.
ProbeOutcomes ==
    IF prog = "dhcpv6_simulator"
    THEN {wait_for_dhcpv6_response(d.data, TidOf(TEST_ID), 2) :
             d \in Datagrams6(TidOf(TEST_ID), FOREIGN_TID)}
    ELSE {wait_for_msg(d.data, XidOf(TEST_ID), 2) :
             d \in Datagrams4(XidOf(TEST_ID), FOREIGN_XID)}

\* The readiness loop calls check_dhcp_server_health() / check_dhcpv6_server_health():
\* socket, bind, first test message.  Any exception is caught and the check
\* returns False; the loop sleeps and tests its deadline again.
ProbeStarts ==
    /\ MainRuns /\ mainpc = "health" /\ nprobes < MaxProbes
    /\ nprobes' = nprobes + 1
    /\ \E env \in {"ok", "bind_fails", "sendto_fails"} :
          mainpc' = IF env = "ok" /\ ProbeMessage(1).exc = "none" THEN "probe1" ELSE "health"
    /\ UNCHANGED <<prog, ready, nsubmitted, handlers, nsignals, stop_requested, exit_cause,
                   stats, clients, released, release_io, task, dec, rx>>

\* The wait step of the health check receives one datagram: a matching OFFER /
\* ADVERTISE makes the check return True and the loop break with the ready
\* flag set; an exception of the wait step is caught and the check returns False.
ProbeRecv ==
    /\ MainRuns /\ mainpc \in {"probe1", "probe2"}
    /\ \E outcome \in ProbeOutcomes :
          /\ mainpc' = CASE outcome = "return" -> "run_clients"
                          [] outcome = "continue" -> mainpc
                          [] OTHER -> "health"
          /\ ready' = (outcome = "return")
          /\ nprobes' = IF outcome = "return" THEN 0 ELSE nprobes
    /\ UNCHANGED <<prog, nsubmitted, handlers, nsignals, stop_requested, exit_cause,
                   stats, clients, released, release_io, task, dec, rx>>

\* The wait step of the health check times out: after the first try the check
\* sends its second test message and waits again; after the second it returns False.
ProbeTimesOut ==
    /\ MainRuns /\ mainpc \in {"probe1", "probe2"}
    /\ \E env \in {"ok", "sendto_fails"} :
          mainpc' = IF mainpc = "probe1" /\ env = "ok" /\ ProbeMessage(2).exc = "none"
                    THEN "probe2" ELSE "health"
    /\ UNCHANGED <<prog, nprobes, ready, nsubmitted, handlers, nsignals, stop_requested,
                   exit_cause, stats, clients, released, release_io, task, dec, rx>>

\* HEALTH_CHECK_TIMEOUT has elapsed at the head of the readiness loop with the
\* ready flag unset: sys.exit(1).  The first test of the deadline, made right
\* after start_time was taken, never fails.
ReadinessFails ==
    /\ MainRuns /\ mainpc = "health" /\ nprobes >= 1
    /\ mainpc' = "exited"
    /\ exit_cause' = "sys.exit(1)"
    /\ UNCHANGED <<prog, nprobes, ready, nsubmitted, handlers, nsignals, stop_requested,
                   stats, clients, released, release_io, task, dec, rx>>

SetTask(i, t) == task' = [task EXCEPT ![i] = t]

\* The history of a transaction: the messages it sent (their type byte), the
\* datagrams its wait steps returned (the transaction id and message type
\* their sender gave them) and its clients.append.
Sent(msg_type) == [ev |-> "send", type |-> msg_type, mine |-> TRUE]

Returned4(i, d) == [ev |-> "recv", type |-> d.msgtype, mine |-> (d.xid = XidOf(i))]

Appended == [ev |-> "append", type |-> 0, mine |-> TRUE]

\* run_clients, one iteration of the loop: loop.run_in_executor(executor, ..., i);
\* after the last one the coroutine awaits asyncio.gather(*tasks).
Submit ==
    /\ MainRuns /\ mainpc = "run_clients"
    /\ nsubmitted' = nsubmitted + 1
    /\ SetTask(nsubmitted + 1, [task[nsubmitted + 1] EXCEPT !.pc = "queued"])
    /\ mainpc' = IF nsubmitted + 1 = TOTAL_CLIENTS THEN "gather" ELSE "run_clients"
    /\ UNCHANGED <<prog, nprobes, ready, handlers, nsignals, stop_requested, exit_cause, stats, clients,
                   released, release_io, dec, rx>>

\* The first message of a transaction, or the exception raised while building it:
\* send_dhcp(sock, 1, mac, xid) / send_dhcpv6(sock, 1, duid, transaction_id,
\* prefix_hint=prefix_hint).
FirstMessage(i) ==
    IF prog = "dhcpv6_simulator"
    THEN create_dhcpv6_msg(1, TidOf(i), DuidOf(i), PREFIX_HINT, NoneValue, 1)
    ELSE Returned(send_dhcp(1, MacOf(i), XidOf(i), NoneValue, NoneValue))

\* A worker thread takes the oldest work item and runs the transaction up to its
\* first wait: identity, socket, bind, then inside try: the DISCOVER / SOLICIT.
\* `env` is what the operating system does to the socket calls.
StartTask(i) ==
    /\ Alive /\ task[i].pc = "queued" /\ \A j \in Queued : i <= j
    /\ PoolHasFreeWorker
    /\ \E env \in {"ok", "bind_fails", "sendto_fails"} :
          LET msg == FirstMessage(i) IN
          SetTask(i,
            CASE env = "bind_fails" ->
                   [task[i] EXCEPT !.pc = "raised", !.exc = "OSError", !.sock = "open"]
              [] env # "bind_fails" /\ msg.exc # "none" ->
                   [task[i] EXCEPT !.pc = "raised", !.exc = msg.exc, !.sock = "closed"]
              [] env = "sendto_fails" /\ msg.exc = "none" ->
                   [task[i] EXCEPT !.pc = "raised", !.exc = "OSError", !.sock = "closed"]
              [] OTHER ->
                   [task[i] EXCEPT !.pc = "await_offer", !.sock = "open",
                                   !.sent = <<msg.value[OPTIONS_OFFSET + 3]>>,
                                   !.log = <<Sent(msg.value[OPTIONS_OFFSET + 3])>>])
    /\ UNCHANGED <<prog, nprobes, ready, mainpc, nsubmitted, handlers, nsignals, stop_requested, exit_cause,
                   stats, clients, released, release_io, dec, rx>>

\* What an OFFER datagram holds: yiaddr (bytes 16..20), its server-identifier
\* option 54, and the address it came from.
OfferOf(d) ==
    [yiaddr |-> Slice(d.data, 16, 20), sid |-> option_value(d.data, 54), src |-> d.addr]

\* What a REQUEST packet carries in its options 50 and 54.
RequestOf(packet) ==
    [requested_ip |-> option_value(packet, 50), server_id |-> option_value(packet, 54)]

\* The exception leaves dhcp_client_logic through finally: sock.close().
RaisedIn(t, e) == [t EXCEPT !.pc = "raised", !.exc = e, !.sock = "closed"]

\* offer, addr = wait_for_msg(sock, xid, 2) receives one datagram; on a match
\* the transaction reads the offer and sends the REQUEST.
RecvOffer(i) ==
    /\ Alive /\ task[i].pc = "await_offer"
    /\ \E d \in Datagrams4(XidOf(i), FOREIGN_XID), env \in {"ok", "sendto_fails"} :
          LET outcome == wait_for_msg(d.data, XidOf(i), 2)
              offered_ip == inet_ntoa(Slice(d.data, 16, 20))
              server_ip == d.addr
              request == send_dhcp(3, MacOf(i), XidOf(i), offered_ip, server_ip)
          IN  SetTask(i,
                CASE outcome = "continue" -> task[i]
                  [] outcome = "IndexError" -> RaisedIn(task[i], "IndexError")
                  [] outcome = "return" /\ env = "sendto_fails" ->
                       RaisedIn([task[i] EXCEPT !.offered_ip = offered_ip,
                                                !.server_ip = server_ip,
                                                !.offer = OfferOf(d),
                                                !.log = Append(@, Returned4(i, d))], "OSError")
                  [] OTHER ->
                       [task[i] EXCEPT !.pc = "await_ack",
                                       !.offered_ip = offered_ip, !.server_ip = server_ip,
                                       !.offer = OfferOf(d),
                                       !.request = RequestOf(request),
                                       !.sent = Append(@, request[OPTIONS_OFFSET + 3]),
                                       !.log = @ \o <<Returned4(i, d),
                                                      Sent(request[OPTIONS_OFFSET + 3])>>])
    /\ UNCHANGED <<prog, nprobes, ready, mainpc, nsubmitted, handlers, nsignals, stop_requested, exit_cause,
                   stats, clients, released, release_io, dec, rx>>

\* ack, _ = wait_for_msg(sock, xid, 5) receives one datagram; on a match the
\* transaction goes on to stats["success"] += 1 and reads the counter.
RecvAck(i) ==
    /\ Alive /\ task[i].pc = "await_ack"
    /\ \E d \in Datagrams4(XidOf(i), FOREIGN_XID) :
          LET outcome == wait_for_msg(d.data, XidOf(i), 5)
          IN  SetTask(i,
                CASE outcome = "continue" -> task[i]
                  [] outcome = "IndexError" -> RaisedIn(task[i], "IndexError")
                  [] OTHER -> [task[i] EXCEPT !.pc = "inc_success", !.tmp = stats.success,
                                              !.log = Append(@, Returned4(i, d))])
    /\ UNCHANGED <<prog, nprobes, ready, mainpc, nsubmitted, handlers, nsignals, stop_requested, exit_cause,
                   stats, clients, released, release_io, dec, rx>>

\* recvfrom raises socket.timeout in either wait: wait_for_msg returns None and
\* the transaction goes on to stats["failed"] += 1 and reads the counter.
WaitTimesOut(i) ==
    /\ Alive /\ task[i].pc \in {"await_offer", "await_ack"}
    /\ SetTask(i, [task[i] EXCEPT !.pc = "inc_failed", !.tmp = stats.failed])
    /\ UNCHANGED <<prog, nprobes, ready, mainpc, nsubmitted, handlers, nsignals, stop_requested, exit_cause,
                   stats, clients, released, release_io, dec, rx>>

\* stats["failed"] += 1 stores the value read plus one; return; finally: sock.close().
IncFailed(i) ==
    /\ Alive /\ task[i].pc = "inc_failed"
    /\ stats' = [stats EXCEPT !.failed = task[i].tmp + 1]
    /\ SetTask(i, [task[i] EXCEPT !.pc = "done", !.sock = "closed", !.nfailed = @ + 1])
    /\ UNCHANGED <<prog, nprobes, ready, mainpc, nsubmitted, handlers, nsignals, stop_requested, exit_cause,
                   clients, released, release_io, dec, rx>>

\* stats["success"] += 1 stores the value read plus one.
IncSuccess(i) ==
    /\ Alive /\ task[i].pc = "inc_success"
    /\ stats' = [stats EXCEPT !.success = task[i].tmp + 1]
    /\ SetTask(i, [task[i] EXCEPT !.pc = "append", !.nsuccess = @ + 1])
    /\ UNCHANGED <<prog, nprobes, ready, mainpc, nsubmitted, handlers, nsignals, stop_requested, exit_cause,
                   clients, released, release_io, dec, rx>>

\* clients.append((mac, xid, offered_ip, server_ip)); finally: sock.close().
AppendLease(i) ==
    /\ Alive /\ task[i].pc = "append"
    /\ clients' = Append(clients, [mac |-> MacOf(i), xid |-> XidOf(i),
                                   ip |-> task[i].offered_ip, server_ip |-> task[i].server_ip])
    /\ released' = Append(released, 0)
    /\ release_io' = Append(release_io, NoRelease)
    /\ SetTask(i, [task[i] EXCEPT !.pc = "done", !.sock = "closed", !.nappend = @ + 1,
                                  !.log = Append(@, Appended)])
    /\ UNCHANGED <<prog, nprobes, ready, mainpc, nsubmitted, handlers, nsignals, stop_requested, exit_cause,
                   stats, dec, rx>>

\* await asyncio.gather(*tasks) returns: every future has a result.  __main__
\* goes on to `if not stop_requested:` and time.sleep(LEASE_DURATION).
GatherReturns ==
    /\ MainRuns /\ mainpc = "gather"
    /\ \A i \in Clients : task[i].pc = "done"
    /\ mainpc' = IF stop_requested THEN "joining" ELSE "hold"
    /\ UNCHANGED <<prog, nprobes, ready, nsubmitted, handlers, nsignals, stop_requested, exit_cause, stats,
                   clients, released, release_io, task, dec, rx>>

\* await asyncio.gather(*tasks) raises the first exception a transaction ended
\* with; `except KeyboardInterrupt` does not catch it and the main thread ends.
\* The interpreter then waits for the worker threads, which go on with the queue.
GatherRaises ==
    /\ MainRuns /\ mainpc = "gather"
    /\ \E i \in Clients : task[i].pc = "raised"
    /\ mainpc' = "joining"
    /\ exit_cause' = "exception"
    /\ UNCHANGED <<prog, nprobes, ready, nsubmitted, handlers, nsignals, stop_requested, stats,
                   clients, released, release_io, task, dec, rx>>

\* time.sleep(LEASE_DURATION) ends; handle_exit(None, None) is called (line 273):
\* stop_requested = True and the loop over clients starts.
HoldExpires ==
    /\ MainRuns /\ mainpc = "hold"
    /\ mainpc' = "release"
    /\ handlers' = <<0>>
    /\ stop_requested' = TRUE
    /\ UNCHANGED <<prog, nprobes, ready, nsubmitted, nsignals, exit_cause, stats, clients, released, release_io, task,
                   dec, rx>>

\* SIGINT or SIGTERM: the main thread runs handle_exit(signum, frame) on top
\* of whatever it was executing, a running handle_exit included.
Signal ==
    /\ Alive /\ nsignals < MaxSignals
    /\ nsignals' = nsignals + 1
    /\ handlers' = Append(handlers, 0)
    /\ stop_requested' = TRUE
    /\ UNCHANGED <<prog, nprobes, ready, mainpc, nsubmitted, exit_cause, stats, clients, released, release_io, task,
                   dec, rx>>

\* The index the innermost handle_exit has reached in `for ... in clients`.
Top == handlers[Len(handlers)]

\* send_release without its except clause: an exception of a socket call leaves
\* the function.
send_release_uncaught(lease, env) ==
    IF env = "ok"
    THEN [exc |-> "none",
          packet |-> build_bootp(1, 0, lease.mac, lease.xid)
                       \o <<53, 1, 7>> \o (<<61, 7, 1>> \o lease.mac)
                       \o (<<50, 4>> \o inet_aton(lease.ip))
                       \o (<<54, 4>> \o inet_aton(lease.server_ip)) \o <<255>>,
          dest |-> <<lease.server_ip, 67>>]
    ELSE [exc |-> "OSError", packet |-> NoneValue, dest |-> NoneValue]

\* send_release of dhcp_simulator and dhcp4-client on one lease: the packet and
\* the address handed to sendto, or nothing sent when a socket call raised.
\* The except clause keeps every Exception inside send_release.
send_release(lease, env) ==
    LET bootp == build_bootp(1, 0, lease.mac, lease.xid)
        options == <<53, 1, 7>>
                     \o (<<61, 7, 1>> \o lease.mac)
                     \o (<<50, 4>> \o inet_aton(lease.ip))
                     \o (<<54, 4>> \o inet_aton(lease.server_ip))
                     \o <<255>>
        packet == bootp \o options
    IN  IF env = "ok"
        THEN [exc |-> "none", packet |-> packet, dest |-> <<lease.server_ip, 67>>]
        ELSE [exc |-> "none", packet |-> NoneValue, dest |-> NoneValue]

\* send_release of dhcpv6_simulator on one lease.
send_release_v6(lease, env) ==
    LET msg == create_dhcpv6_msg(8, lease.transaction_id, lease.duid, NoneValue,
                                 lease.server_duid, 1)
    IN  IF env = "ok" /\ msg.exc = "none"
        THEN [exc |-> "none", packet |-> msg.value, dest |-> <<lease.server_ip, 547>>]
        ELSE [exc |-> "none", packet |-> NoneValue, dest |-> NoneValue]

\* The call of the loop body of handle_exit, by program.
ReleaseCall(lease, env) ==
    IF prog = "dhcpv6_simulator" THEN send_release_v6(lease, env) ELSE send_release(lease, env)

\* What release_io records of a call that returned.
Recorded(io, r) ==
    IF r.packet = NoneValue
    THEN [io EXCEPT !.failed = @ + 1]
    ELSE [io EXCEPT !.packet = r.packet, !.dest = r.dest]

\* asyncio.run unwinding cancels the futures of the work items no worker has
\* taken yet.
CancelQueued(t) == [i \in Clients |-> IF t[i].pc = "queued" THEN [t[i] EXCEPT !.pc = "cancelled"]
                                       ELSE t[i]]

\* An exception (SystemExit of sys.exit(0), or any other) leaves handle_exit: it
\* is raised through every frame of the main thread.  The interpreter then
\* waits for the worker threads; an exception raised while it waits ends the
\* wait, and the process with it.
Unwind(cause) ==
    /\ handlers' = <<>>
    /\ mainpc' = IF mainpc = "joining" THEN "exited" ELSE "joining"
    /\ exit_cause' = IF exit_cause = "none" THEN cause ELSE exit_cause
    /\ task' = IF mainpc \in {"run_clients", "gather"} THEN CancelQueued(task) ELSE task

\* One iteration of the loop of handle_exit: send_release(mac, xid, ip, srv).
\* `env` is what the operating system does to the socket calls of send_release.
ReleaseNext ==
    /\ Alive /\ handlers # <<>> /\ Top < Len(clients)
    /\ \E env \in {"ok", "bind_fails", "sendto_fails"} :
          LET r == ReleaseCall(clients[Top + 1], env) IN
          IF r.exc = "none"
          THEN /\ released' = [released EXCEPT ![Top + 1] = IF r.packet = NoneValue THEN @ ELSE @ + 1]
               /\ release_io' = [release_io EXCEPT ![Top + 1] = Recorded(@, r)]
               /\ handlers' = [handlers EXCEPT ![Len(handlers)] = @ + 1]
               /\ UNCHANGED <<mainpc, exit_cause, task>>
          ELSE /\ Unwind(r.exc)
               /\ UNCHANGED <<released, release_io>>
    /\ UNCHANGED <<prog, nprobes, ready, nsubmitted, nsignals, stop_requested, stats, clients, dec, rx>>

\* The loop of handle_exit is over: the final counts are printed and sys.exit(0)
\* raises SystemExit.
ReleaseExits ==
    /\ Alive /\ handlers # <<>> /\ ~(Top < Len(clients))
    /\ Unwind("sys.exit")
    /\ UNCHANGED <<prog, nprobes, ready, nsubmitted, nsignals, stop_requested, stats, clients, released,
                   release_io, dec, rx>>

\* Every worker thread has ended: the process exits.
ProcessExits ==
    /\ MainRuns /\ mainpc = "joining"
    /\ Running = {} /\ Queued = {}
    /\ mainpc' = "exited"
    /\ UNCHANGED <<prog, nprobes, ready, nsubmitted, handlers, nsignals, stop_requested, exit_cause, stats,
                   clients, released, release_io, task, dec, rx>>

Next ==
    \/ ProbeStarts
    \/ ProbeRecv
    \/ ProbeTimesOut
    \/ ReadinessFails
    \/ Submit
    \/ \E i \in Clients : StartTask(i)
    \/ \E i \in Clients : RecvOffer(i)
    \/ \E i \in Clients : RecvAck(i)
    \/ \E i \in Clients : WaitTimesOut(i)
    \/ \E i \in Clients : IncFailed(i)
    \/ \E i \in Clients : IncSuccess(i)
    \/ \E i \in Clients : AppendLease(i)
    \/ GatherReturns
    \/ GatherRaises
    \/ HoldExpires
    \/ Signal
    \/ ReleaseNext
    \/ ReleaseExits
    \/ ProcessExits

Spec == Init /\ [][Next]_vars

\* ------------------------------------------------------------------------
\* The DHCPv6 send functions, each applied to one call
\* ------------------------------------------------------------------------

\* 'ff02::1:2', the All-DHCP-agents multicast address, as eight groups.
ALL_DHCP_AGENTS == <<65282, 0, 0, 0, 0, 0, 1, 2>>

\* DHCPV6_SERVER_IP of the configuration: its default 'fe80::2'.
DHCPV6_SERVER_IP == SERVER6_A

\* send_dhcpv6(sock, msg_type, duid, transaction_id, server_duid, prefix_hint):
\* the exception raised while building the message, or the message and the
\* destination handed to sock.sendto.
send_dhcpv6(msg_type, duid, transaction_id, server_duid, prefix_hint) ==
    LET msg == create_dhcpv6_msg(msg_type, transaction_id, duid, prefix_hint, server_duid, 1)
        dest == IF msg_type = 1 THEN <<ALL_DHCP_AGENTS, 547>> ELSE <<DHCPV6_SERVER_IP, 547>>
    IN  IF msg.exc # "none"
        THEN [exc |-> msg.exc, packet |-> NoneValue, dest |-> NoneValue]
        ELSE [exc |-> "none", packet |-> msg.value, dest |-> dest]

\* The server identifier of the ADVERTISEs of the scenario.
SERVER_DUID == <<0, 3, 0, 1>>

\* The addresses an ADVERTISE may come from: the configured server, another.
AdvertiseSources == {SERVER6_A, SERVER6_B}

\* The delegated prefixes a lease of the registry may hold: none, or
\* 'fd00:1234:5678::/64'.
LeasePrefixes == {NoneValue, PrefixText(PREFIX_HINT, 64)}

NotCalled == [exc |-> "pending", packet |-> NoneValue, dest |-> NoneValue]

\* The calls: send_dhcpv6 for a SOLICIT (health check: no hint; transaction:
\* with the hint), send_dhcpv6 for the REQUEST of a transaction that learned
\* server_duid and server_ip from its ADVERTISE, send_release for a lease.
SendCalls ==
    {[fn |-> "send_dhcpv6", msg_type |-> 1, duid |-> d, transaction_id |-> t,
      server_duid |-> NoneValue, prefix_hint |-> h, prefix |-> NoneValue, server_ip |-> NoneValue,
      env |-> "ok", sent |-> NotCalled]
        : d \in CodecDuids, t \in CodecTids, h \in {NoneValue, PREFIX_HINT}}
    \cup
    {[fn |-> "send_dhcpv6", msg_type |-> 3, duid |-> d, transaction_id |-> t,
      server_duid |-> SERVER_DUID, prefix_hint |-> h, prefix |-> NoneValue, server_ip |-> a,
      env |-> "ok", sent |-> NotCalled]
        : d \in CodecDuids, t \in CodecTids, h \in {NoneValue, PREFIX_HINT}, a \in AdvertiseSources}
    \cup
    {[fn |-> "send_release", msg_type |-> 8, duid |-> d, transaction_id |-> t,
      server_duid |-> SERVER_DUID, prefix_hint |-> NoneValue, prefix |-> p, server_ip |-> a,
      env |-> e, sent |-> NotCalled]
        : d \in CodecDuids, t \in CodecTids, p \in LeasePrefixes, a \in AdvertiseSources,
          e \in {"ok", "sendto_fails"}}

InitSend6 == dec \in SendCalls /\ rx = Unused /\ RunUnused

\* send_dhcpv6 is applied to the call.
ApplySendDhcpv6 ==
    /\ dec.fn = "send_dhcpv6" /\ dec.sent.exc = "pending"
    /\ dec' = [dec EXCEPT !.sent = send_dhcpv6(dec.msg_type, dec.duid, dec.transaction_id,
                                               dec.server_duid, dec.prefix_hint)]
    /\ UNCHANGED <<rx, runVars>>

\* send_release is applied to the lease.
ApplySendRelease6 ==
    /\ dec.fn = "send_release" /\ dec.sent.exc = "pending"
    /\ dec' = [dec EXCEPT !.sent = send_release_v6(
                   [duid |-> dec.duid, transaction_id |-> dec.transaction_id,
                    server_duid |-> dec.server_duid, prefix |-> dec.prefix,
                    server_ip |-> dec.server_ip], dec.env)]
    /\ UNCHANGED <<rx, runVars>>

NextSend6 == ApplySendDhcpv6 \/ ApplySendRelease6

SpecSend6 == InitSend6 /\ [][NextSend6]_vars

\* ------------------------------------------------------------------------
\* dhcpv6_client_logic from the ADVERTISE to the lease: what lines 247-266 and
\* 272-286 compute from the two messages the wait steps return
\* ------------------------------------------------------------------------

\* IA_PD values a server may send: one with a prefix, one with another prefix,
\* one with no sub-option, one holding a status code (13) only.
IaPdValues ==
    {IaPdWith(64, PREFIX_HINT), IaPdWith(56, OTHER_PREFIX), IaPdOf(<<>>),
     IaPdOf(<<Opt(13, <<0, 6>>)>>)}

\* The option lists of a server message: with or without IA_PD.
IaPdChoices == {<<>>} \cup {<<Opt(25, v)>> : v \in IaPdValues}

\* What wait_for_dhcpv6_response(sock, transaction_id, 2) may return: nothing
\* (timeout), or an ADVERTISE with the transaction id, with or without the
\* server identifier.
AdvertisesReturned(tid) ==
    {NoDatagram}
    \cup {ServerMsg6(tid, 2, FALSE, sid \o pd, src)
            : sid \in {<<>>, <<Opt(2, SERVER_DUID)>>}, pd \in IaPdChoices,
              src \in AdvertiseSources}

\* What wait_for_dhcpv6_response(sock, transaction_id, 7) may return.
RepliesReturned(tid) ==
    {NoDatagram}
    \cup {ServerMsg6(tid, 7, FALSE, <<Opt(2, SERVER_DUID)>> \o pd, SERVER6_A)
            : pd \in IaPdChoices}

LeaseInputs ==
    {[fn |-> "dhcpv6_client_logic", duid |-> DuidOf(1), transaction_id |-> TidOf(1),
      advertise |-> a, reply |-> r, step |-> "await_advertise", outcome |-> "pending",
      server_duid |-> NoneValue, server_ip |-> NoneValue, delegated_prefix |-> NoneValue,
      lease |-> <<>>]
        : a \in AdvertisesReturned(TidOf(1)), r \in RepliesReturned(TidOf(1))}

InitLease6 == dec \in LeaseInputs /\ rx = Unused /\ RunUnused

\* return after stats["failed"] += 1, or an exception: the transaction is over.
Ended(d, outcome) == [d EXCEPT !.step = "ended", !.outcome = outcome]

\* Lines 247-266: the first wait step has returned.
ReadAdvertise ==
    /\ dec.fn = "dhcpv6_client_logic" /\ dec.step = "await_advertise"
    /\ LET options == parse_dhcpv6_options(dec.advertise.data, 4)
           prefix == IF 25 \in DOMAIN options.value
                     THEN extract_prefix_from_ia_pd(options.value[25])
                     ELSE Returned(NoneValue)
       IN  dec' = CASE dec.advertise = NoDatagram -> Ended(dec, "Failed")
                    [] dec.advertise # NoDatagram /\ options.exc # "none" -> Ended(dec, "raised")
                    [] dec.advertise # NoDatagram /\ options.exc = "none"
                         /\ 2 \notin DOMAIN options.value -> Ended(dec, "Failed")
                    [] dec.advertise # NoDatagram /\ options.exc = "none"
                         /\ 2 \in DOMAIN options.value /\ prefix.exc # "none" -> Ended(dec, "raised")
                    [] OTHER -> [dec EXCEPT !.step = "await_reply",
                                            !.server_duid = options.value[2],
                                            !.server_ip = dec.advertise.addr,
                                            !.delegated_prefix = prefix.value]
    /\ UNCHANGED <<rx, runVars>>

\* Lines 272-286: the second wait step has returned.
ReadReply ==
    /\ dec.fn = "dhcpv6_client_logic" /\ dec.step = "await_reply"
    /\ LET reply_options == parse_dhcpv6_options(dec.reply.data, 4)
           prefix == IF 25 \in DOMAIN reply_options.value
                     THEN extract_prefix_from_ia_pd(reply_options.value[25])
                     ELSE Returned(dec.delegated_prefix)
       IN  dec' = CASE dec.reply = NoDatagram -> Ended(dec, "Failed")
                    [] dec.reply # NoDatagram /\ reply_options.exc # "none" -> Ended(dec, "raised")
                    [] dec.reply # NoDatagram /\ reply_options.exc = "none"
                         /\ prefix.exc # "none" -> Ended(dec, "raised")
                    [] OTHER ->
                         [dec EXCEPT !.step = "ended", !.outcome = "Succeeded",
                                     !.delegated_prefix = prefix.value,
                                     !.lease = <<[duid |-> dec.duid,
                                                  transaction_id |-> dec.transaction_id,
                                                  server_duid |-> dec.server_duid,
                                                  prefix |-> prefix.value,
                                                  server_ip |-> dec.server_ip]>>]
    /\ UNCHANGED <<rx, runVars>>

NextLease6 == ReadAdvertise \/ ReadReply

SpecLease6 == InitLease6 /\ [][NextLease6]_vars


\* The last datagram carries the transaction id the wait step waits with.
IdMatches(d) == IF rx.proto = "v4" THEN d.xid = rx.xid ELSE d.tid = rx.tid

\* C7: a wait step returns a datagram only if its transaction id is the
\* waiting transaction's and its message type is the expected one; a datagram
\* with another transaction id or another message type is discarded and the
\* wait goes on until a match or the timeout.
C7_WaitReturnsOnlyMatch ==
    /\ rx.state = "returned" =>
          IdMatches(rx.last) /\ rx.last.msgtype = rx.expected
    /\ (rx.nrecv > 0 /\ (~IdMatches(rx.last) \/ rx.last.msgtype # rx.expected)) =>
          rx.state \in {"waiting", "timeout"}

\* C8: in the DHCPv4 wait step a datagram with the matching transaction id
\* whose option stream is truncated never raises out of wait_for_msg: it is
\* treated as not matching and the wait goes on.
C8_TruncatedNeverRaises ==
    (rx.proto = "v4" /\ rx.nrecv > 0 /\ rx.last.truncated /\ rx.last.xid = rx.xid) =>
        rx.state \in {"waiting", "timeout"}

\* A transaction that no longer executes and no longer waits for a worker.
TerminalPcs == {"done", "raised", "cancelled"}

\* C1: at the moment run_clients returns, stats["success"] + stats["failed"]
\* equals the number of clients, whatever the interleaving of the workers.
C1_CountersSumToTotal ==
    mainpc = "hold" => stats.success + stats.failed = TOTAL_CLIENTS

\* C2: at the moment run_clients returns, the number of leases in clients
\* equals stats["success"], whatever the interleaving of the workers.
C2_LeasesEqualSuccess ==
    mainpc = "hold" => Len(clients) = stats.success

\* C3: in every reachable state the transactions started and not yet ended
\* number at most MAX_CONCURRENT.
C3_AtMostMaxConcurrent ==
    Cardinality(Running) <= MAX_CONCURRENT

\* C3 witness: MAX_CONCURRENT transactions are executing and another one,
\* already submitted, waits in the queue of the pool.
C3_Witness ==
    Cardinality(Running) = MAX_CONCURRENT /\ Queued # {}

\* C4: control leaves run_clients, by the return of gather or by the exception
\* gather raises, only when every submitted transaction has reached a
\* terminal state: none still executes, none is still queued.
C4_GatherLeavesWhenAllTerminal ==
    [][(GatherReturns \/ GatherRaises) => \A i \in Clients : task[i].pc \in TerminalPcs]_vars

\* C5: when the process has exited after handle_exit ran to its sys.exit(0), a
\* RELEASE has been sent for every lease ever appended to clients, unless a
\* socket call of its send_release failed.
C5_EveryLeaseReleasedAtExit ==
    (mainpc = "exited" /\ exit_cause = "sys.exit") =>
        \A k \in 1..Len(clients) : released[k] >= 1 \/ release_io[k].failed >= 1

\* C6: however many times handle_exit is invoked, each lease of clients has a
\* RELEASE sent at most once.
C6_ReleaseAtMostOnce ==
    \A k \in 1..Len(clients) : released[k] <= 1

\* C10: a transaction that ended without having received a matching OFFER or
\* ADVERTISE, and not by a socket error or a fault of the wait step, ended
\* Failed: it incremented stats["failed"] once and stats["success"] never, sent
\* no REQUEST and appended no lease.
C10_NoOfferEndsFailed ==
    \A i \in Clients :
        (/\ task[i].pc \in {"done", "raised"}
         /\ task[i].offered_ip = NoneValue
         /\ task[i].exc \notin {"OSError", "IndexError"})
        => /\ task[i].pc = "done"
           /\ task[i].nfailed = 1 /\ task[i].nsuccess = 0
           /\ \A k \in 1..Len(task[i].sent) : task[i].sent[k] # 3
           /\ task[i].nappend = 0

\* The transactions a worker thread has started.
Started == {i \in Clients : task[i].pc \notin {"new", "queued", "cancelled"}}

\* The exit status of the process: sys.exit(0) of handle_exit gives 0;
\* sys.exit(1) of the readiness loop and an unhandled exception give 1.
ExitStatus == IF exit_cause = "sys.exit" THEN 0 ELSE 1

\* C11: no transaction is launched unless a readiness probe has succeeded, and
\* a process whose readiness deadline elapsed has exited with a non-zero status
\* having launched no client; for every entry point of the repository.
C11_NoClientBeforeReadiness ==
    /\ (nsubmitted > 0 \/ Started # {}) => ready
    /\ exit_cause = "sys.exit(1)" =>
          (mainpc = "exited" /\ ExitStatus # 0 /\ nsubmitted = 0 /\ Started = {})

\* C12: no failure inside one transaction is fatal: whatever a transaction ends
\* with, the main program is not ended by an unhandled exception (it goes on
\* to the release path, which ends it by sys.exit(0)).
C12_NoFailureIsFatal ==
    (\E i \in Clients : task[i].pc = "raised") => exit_cause # "exception"

\* The transaction that appended lease k of clients.
OwnerOf(k) == CHOOSE i \in Clients : XidOf(i) = clients[k].xid

\* C13: after a matching OFFER with yiaddr A and server-identifier option 54 = S,
\* the REQUEST sent carries option 50 = A and option 54 = S, and the lease
\* appended after the ACK has address A and server S, also when the OFFER
\* came from an address other than S.
C13_RequestEchoesOffer ==
    /\ \A i \in Clients :
          (task[i].offer.sid # NoneValue /\ task[i].request.requested_ip # NoneValue) =>
              /\ task[i].request.requested_ip = task[i].offer.yiaddr
              /\ task[i].request.server_id = task[i].offer.sid
    /\ \A k \in 1..Len(clients) :
          task[OwnerOf(k)].offer.sid # NoneValue =>
              /\ inet_aton(clients[k].ip) = task[OwnerOf(k)].offer.yiaddr
              /\ inet_aton(clients[k].server_ip) = task[OwnerOf(k)].offer.sid

\* C14: a DHCPv6 transaction whose socket calls work and which does not end
\* Failed (the server answers its SOLICIT and its REQUEST as in the scenario)
\* has SOLICITed with the prefix hint and ends Succeeded: one increment of
\* stats["success"] and one lease appended.
C14_V6ExchangeSucceeds ==
    \A i \in Clients :
        (/\ prog = "dhcpv6_simulator"
         /\ task[i].pc \in {"done", "raised"}
         /\ task[i].exc # "OSError"
         /\ task[i].nfailed = 0)
        => /\ task[i].log # <<>> /\ task[i].log[1] = Sent(1)
           /\ task[i].nsuccess = 1 /\ task[i].nappend = 1

\* C16: once a SIGINT / SIGTERM has been delivered, no transaction that had
\* not started is started: the set of started transactions does not grow.
C16_NoStartAfterInterrupt ==
    [][nsignals > 0 => Started' \subseteq Started]_vars

\* C18: every transaction that has ended, normally or by an exception, has
\* executed exactly one increment, of one of the two counters, and one
\* clients.append if that was stats["success"], none if it was stats["failed"].
C18_OneIncrementPerTransaction ==
    \A i \in Clients :
        task[i].pc \in {"done", "raised"} =>
            /\ task[i].nfailed + task[i].nsuccess = 1
            /\ task[i].nappend = task[i].nsuccess

\* A datagram a wait step returned that is what the transaction waited for.
Matching(msg_type) == [ev |-> "recv", type |-> msg_type, mine |-> TRUE]

\* C19: within a transaction the exchange is in order and no step is skipped:
\* a REQUEST is sent only right after the DISCOVER / SOLICIT was sent and a
\* matching OFFER / ADVERTISE was returned, and a lease is appended only right
\* after that REQUEST was sent and a matching ACK / REPLY was returned.
C19_ExchangeInOrder ==
    \A i \in Clients : \A k \in 1..Len(task[i].log) :
        /\ task[i].log[k] = Sent(1) => k = 1
        /\ task[i].log[k] = Sent(3) =>
              k = 3 /\ task[i].log[1] = Sent(1) /\ task[i].log[2] = Matching(2)
        /\ task[i].log[k] = Appended =>
              k = 5 /\ task[i].log[3] = Sent(3) /\ task[i].log[4] = Matching(5)
        /\ task[i].log[k].ev = "recv" => k \in {2, 4}

\* C19 witness: a transaction went through the whole exchange and appended
\* its lease.
C19_Witness ==
    \E i \in Clients : Len(task[i].log) = 5 /\ task[i].log[5] = Appended

\* C20: when every transaction has ended normally, each counter equals the
\* number of transactions that executed an increment on it, and clients
\* holds one entry per clients.append executed.
C20_NoLostUpdate ==
    (mainpc = "hold" /\ \A i \in Clients : task[i].pc = "done") =>
        /\ stats.success = Cardinality({i \in Clients : task[i].nsuccess > 0})
        /\ stats.failed = Cardinality({i \in Clients : task[i].nfailed > 0})
        /\ Len(clients) = Cardinality({i \in Clients : task[i].nappend > 0})

\* C21: a transaction that has ended, by return or by an exception raised
\* anywhere after socket.socket(), has closed the socket it created.
C21_SocketClosedAtEnd ==
    \A i \in Clients :
        (task[i].pc \in {"done", "raised"}) => task[i].sock = "closed"

\* C22: a DHCPv6 transaction that has ended without an ADVERTISE carrying a
\* server identifier (option 2), its socket calls having worked, has ended
\* Failed: stats["failed"] incremented once, stats["success"] never, no
\* REQUEST sent and no lease appended.
C22_NoServerIdEndsFailed ==
    prog = "dhcpv6_simulator" =>
        \A i \in Clients :
            (/\ task[i].pc \in {"done", "raised"}
             /\ task[i].offer.sid = NoneValue
             /\ task[i].exc # "OSError")
            => /\ task[i].nfailed = 1 /\ task[i].nsuccess = 0
               /\ Sent(3) \notin {task[i].log[k] : k \in 1..Len(task[i].log)}
               /\ task[i].nappend = 0

\* C23: a send_release call that fails in a socket call leaves handle_exit
\* running with its loop at the next lease, and handle_exit ends only after its
\* loop has passed every lease of clients, each of them having had a RELEASE
\* sent or a failed attempt, and ends by sys.exit(0).
C23_ReleaseIsBestEffort ==
    [][/\ (\E k \in 1..Len(clients) : release_io'[k].failed > release_io[k].failed) =>
            /\ Len(handlers') = Len(handlers)
            /\ handlers'[Len(handlers')] = Top + 1
            /\ mainpc' = mainpc /\ exit_cause' = exit_cause
       /\ (handlers # <<>> /\ handlers' = <<>>) =>
            /\ Top = Len(clients)
            /\ \A k \in 1..Len(clients) : released[k] >= 1 \/ release_io[k].failed >= 1
            /\ exit_cause' = (IF exit_cause = "none" THEN "sys.exit" ELSE exit_cause)
            /\ mainpc' \in {"joining", "exited"}]_vars

\* C23 witness: the process has exited by sys.exit(0) of a single handle_exit
\* whose send_release failed for one lease and sent the RELEASE of a later one.
C23_Witness ==
    /\ mainpc = "exited" /\ exit_cause = "sys.exit" /\ nsignals = 0
    /\ \E k, j \in 1..Len(clients) :
          /\ k < j
          /\ release_io[k].failed = 1 /\ released[k] = 0
          /\ released[j] = 1 /\ release_io[j].failed = 0

====
